---- MODULE Spec2Model ----
(***************************************************************************)
(* Model of mtgdb/color.py: Color, ColorPie, Identity and IdentityMap.     *)
(*                                                                         *)
(* A Python str is a sequence of one-character strings: "wu" is            *)
(* <<"w","u">>.  A Color object is a record with an id, because Color has  *)
(* no __eq__/__hash__ and so compares by object identity.  The optional    *)
(* _name of an Identity is <<>> for None and <<s>> for the string s.       *)
(* A dict is the sequence of its (key, value) items in insertion order.    *)
(* A call that raises returns [ok |-> FALSE, err |-> <exception>].         *)
(***************************************************************************)
EXTENDS Integers, Sequences, FiniteSets, TLC

VARIABLES
    pie,      \* the ColorPie under work: its list of colors
    idmap,    \* IdentityMap.map: items <<[key, ident]>> in insertion order
    pc,       \* position of the running code
    n,        \* build_identity_map: target size of the chains
    step,     \* build_identity_map: step of the chains
    ci,       \* build_identity_map: position of the starting color
    cfg,      \* number of module-level describe calls already run
    query,    \* the key of the last lookup
    result,   \* the outcome of the last lookup
    argA,     \* colors given to the constructor of identity A
    argB,     \* colors given to the constructor of identity B
    idA,      \* identity A
    idB,      \* identity B
    eq,       \* outcome of idA == idB
    calls     \* the describe calls made on identity A, in call order

vars == <<pie, idmap, pc, n, step, ci, cfg, query, result, argA, argB, idA, idB, eq,
          calls>>

----------------------------------------------------------------------------
\* Bounds of the model

\* largest palette built by build_identity_map
MaxPie == 6
\* describe calls made on the registry of the two-color palette
MaxDescribe == 1
\* longest list of colors handed to the Identity constructor
MaxColors == 3
\* the number of describe calls made on one identity
MaxCalls == 3
\* the greatest step, forward or backward, handed to shift
MaxStep == 4
\* the length of the strings handed to parse
MaxParse == 3

----------------------------------------------------------------------------
\* Color

Color(i, s) == [id |-> i, symbol |-> s]

White  == Color(1, "w")
Blue   == Color(2, "u")
Black  == Color(3, "b")
Red    == Color(4, "r")
Green  == Color(5, "g")
Purple == Color(6, "p")

MagicColorPie == <<White, Blue, Black, Red, Green>>

\* the palette of TestIdentity
TestPie == <<Blue, Red, Purple, White>>

\* further colors for palettes beyond the six of the tests
ExtraSymbols == <<"x", "y", "z">>
SixColors == <<White, Blue, Black, Red, Green, Purple>>
PaletteOfSize(t) ==
    [i \in 1..t |-> IF i <= 6 THEN SixColors[i] ELSE Color(i, ExtraSymbols[i - 6])]

----------------------------------------------------------------------------
\* Exceptions and optional values

Ok(v)    == [ok |-> TRUE, val |-> v]
Raise(e) == [ok |-> FALSE, err |-> e]
\* the exception e raised with the key k as its argument
RaiseAt(e, k) == [ok |-> FALSE, err |-> e, key |-> k]
None     == <<>>
Some(v)  == <<v>>

----------------------------------------------------------------------------
\* str

\* the set of the elements of a sequence
SetOf(s) == {s[i] : i \in 1..Len(s)}

Uppers == <<"A","B","C","D","E","F","G","H","I","J","K","L","M",
            "N","O","P","Q","R","S","T","U","V","W","X","Y","Z">>
Lowers == <<"a","b","c","d","e","f","g","h","i","j","k","l","m",
            "n","o","p","q","r","s","t","u","v","w","x","y","z">>

\* the lower-case and upper-case forms of one character
LowerChar(c) ==
    IF c \in SetOf(Uppers)
    THEN Lowers[CHOOSE i \in 1..Len(Uppers) : Uppers[i] = c]
    ELSE c

UpperChar(c) ==
    IF c \in SetOf(Lowers)
    THEN Uppers[CHOOSE i \in 1..Len(Lowers) : Lowers[i] = c]
    ELSE c

\* no case folding
lower_asGiven(s) == s

\* str.lower() and str.upper()
lower(s) == [i \in 1..Len(s) |-> LowerChar(s[i])]
upper(s) == [i \in 1..Len(s) |-> UpperChar(s[i])]

\* the operator "a in b" on two str: a is a substring of b
StrIn(a, b) ==
    \E i \in 0..(Len(b) - Len(a)) : \A j \in 1..Len(a) : b[i + j] = a[j]

\* "".join(parts)
RECURSIVE join(_)
join(parts) == IF parts = <<>> THEN <<>> ELSE Head(parts) \o join(Tail(parts))

----------------------------------------------------------------------------
\* ColorPie

\* Sequence.index: the 0-based position of the first element equal to color
RECURSIVE indexFrom(_, _, _)
indexFrom(colors, color, i) ==
    IF i > Len(colors) THEN Raise("ValueError")
    ELSE IF colors[i] = color THEN Ok(i - 1)
    ELSE indexFrom(colors, color, i + 1)

\* the colors are compared by their symbols
index_bySymbol(p, color) ==
    IF \E i \in 1..Len(p) : p[i].symbol = color.symbol
    THEN Ok((CHOOSE i \in 1..Len(p) :
                p[i].symbol = color.symbol /\ \A j \in 1..(i - 1) : p[j].symbol # color.symbol) - 1)
    ELSE Raise("ValueError")

index(p, color) == indexFrom(p, color, 1)

\* the symbols are compared without regard to letter case
getcolor_anyCase(p, sym) ==
    IF \E i \in 1..Len(p) : LowerChar(p[i].symbol) = LowerChar(sym)
    THEN Ok(p[CHOOSE i \in 1..Len(p) :
                 /\ LowerChar(p[i].symbol) = LowerChar(sym)
                 /\ \A j \in 1..(i - 1) : LowerChar(p[j].symbol) # LowerChar(sym)])
    ELSE RaiseAt("KeyError", sym)

\* ColorPie.__getitem__ with a str
getcolor(p, sym) ==
    IF \E i \in 1..Len(p) : p[i].symbol = sym
    THEN Ok(p[CHOOSE i \in 1..Len(p) :
                 p[i].symbol = sym /\ \A j \in 1..(i - 1) : p[j].symbol # sym])
    ELSE RaiseAt("KeyError", sym)

\* the step is taken forward whatever its sign
shift_forwardOnly(p, color, s) ==
    p[(((IF s < 0 THEN -s ELSE s) + index(p, color).val) % Len(p)) + 1]

\* ColorPie.shift, for a color of the palette
shift(p, color, s) == p[((s + index(p, color).val) % Len(p)) + 1]

\* a color that is not in the palette is taken for its first element
shiftCall_fromFirst(p, color, s) ==
    IF index(p, color).ok THEN Ok(shift(p, color, s))
    ELSE IF p = <<>> THEN Raise("ValueError")
    ELSE Ok(p[(s % Len(p)) + 1])

\* ColorPie.shift: index raises before the modulo is taken
shiftCall(p, color, s) ==
    IF index(p, color).ok THEN Ok(shift(p, color, s)) ELSE Raise("ValueError")

\* a plain list in place of the OrderedSet: repeated colors are kept
OrderedSet_keepsRepeats(colors) == colors

\* OrderedSet(colors): the first occurrence of each element, in order
OrderedSet(colors) ==
    LET kept == {i \in 1..Len(colors) : \A j \in 1..(i - 1) : colors[j] # colors[i]}
    IN  [k \in 1..Cardinality(kept) |->
            colors[CHOOSE i \in kept : Cardinality({j \in kept : j < i}) = k - 1]]

\* Identity.__init__
Identity(p, colors) ==
    [pie |-> p, colors |-> OrderedSet(colors), _name |-> None, aliases |-> <<>>]

\* ColorPie.parse
RECURSIVE parseColors(_, _)
parseColors(p, s) ==
    IF s = <<>> THEN Ok(<<>>)
    ELSE LET c == getcolor(p, Head(s))
         IN  IF ~c.ok THEN c
             ELSE LET rest == parseColors(p, Tail(s))
                  IN  IF ~rest.ok THEN rest ELSE Ok(<<c.val>> \o rest.val)

\* the colors are listed in the order of the palette
parse_paletteOrder(p, s) ==
    LET cs == parseColors(p, s)
    IN  IF cs.ok
        THEN Ok(Identity(p, SelectSeq(p, LAMBDA c : \E k \in 1..Len(cs.val) : cs.val[k] = c)))
        ELSE cs

parse(p, s) ==
    LET cs == parseColors(p, s)
    IN  IF cs.ok THEN Ok(Identity(p, cs.val)) ELSE cs

----------------------------------------------------------------------------
\* Identity

\* the symbols of the members of ident taken in palette order
canonical_paletteOrder(ident) ==
    IF Len(ident.colors) = 0
    THEN <<"c","o","l","o","r","l","e","s","s">>
    ELSE LET p == ident.pie
             member(i) == \E j \in 1..Len(ident.colors) : ident.colors[j] = p[i]
         IN  join([i \in 1..Len(p) |-> IF member(i) THEN <<p[i].symbol>> ELSE <<>>])

\* the joined symbols, without the special case of the empty identity
canonical_noColorless(ident) ==
    join([i \in 1..Len(ident.colors) |-> <<ident.colors[i].symbol>>])

\* Identity.canonical
canonical(ident) ==
    IF Len(ident.colors) = 0
    THEN <<"c","o","l","o","r","l","e","s","s">>
    ELSE join([i \in 1..Len(ident.colors) |-> <<ident.colors[i].symbol>>])

\* the position plus one in place of the bit of the position
Shl_positionPlusOne(k) == k + 1

\* 1 << k
Shl(k) == 2 ^ k

RECURSIVE SumSeq(_)
SumSeq(s) == IF s = <<>> THEN 0 ELSE Head(s) + SumSeq(Tail(s))

\* Identity.checksum, for an identity whose colors are in its palette
checksum(ident) ==
    SumSeq([i \in 1..Len(ident.colors) |-> Shl(index(ident.pie, ident.colors[i]).val)])

\* the display name is the canonical string whatever describe received
name_canonicalOnly(ident) == canonical(ident)

\* Identity.checksum: index raises for a color that is not in the palette
checksumCall(ident) ==
    IF \A i \in 1..Len(ident.colors) : index(ident.pie, ident.colors[i]).ok
    THEN Ok(checksum(ident))
    ELSE Raise("ValueError")

\* Identity.name
name(ident) ==
    IF ident._name = None \/ ident._name = Some(<<>>)
    THEN canonical(ident)
    ELSE ident._name[1]

\* Identity.__eq__
IdentityEq(self, other) == checksum(other) = checksum(self)

----------------------------------------------------------------------------
\* IdentityMap

\* k in self.map
HasKey(m, k) == \E i \in 1..Len(m) : m[i].key = k

\* self.map[k], for a key of the dict
ItemOf(m, k) == m[CHOOSE i \in 1..Len(m) : m[i].key = k]

\* the last identity added with a checksum replaces the stored one
add_lastWins(m, ident) ==
    IF \E i \in 1..Len(m) : m[i].key = checksum(ident)
    THEN [i \in 1..Len(m) |->
             IF m[i].key = checksum(ident) THEN [m[i] EXCEPT !.ident = ident] ELSE m[i]]
    ELSE Append(m, [key |-> checksum(ident), ident |-> ident])

\* an identity added with a registered checksum takes the place of the
\* stored one, at the end of the dict
add_reinserts(m, ident) ==
    Append(SelectSeq(m, LAMBDA e : e.key # checksum(ident)),
           [key |-> checksum(ident), ident |-> ident])

\* the identities are keyed by their number of colors
add_keyedBySize(m, ident) ==
    IF ~HasKey(m, Len(ident.colors))
    THEN Append(m, [key |-> Len(ident.colors), ident |-> ident])
    ELSE m

\* IdentityMap.add
add(m, ident) ==
    IF ~HasKey(m, checksum(ident))
    THEN Append(m, [key |-> checksum(ident), ident |-> ident])
    ELSE m

\* an alias matches when it contains the search string
matches_aliasSubstring(ident, k) ==
    LET search == lower(k)
    IN  \/ StrIn(search, lower(name(ident)))
        \/ \E i \in 1..Len(ident.aliases) : StrIn(search, lower(ident.aliases[i]))

\* the name and the aliases are compared in the letter case they were given
matches_caseSensitive(ident, k) ==
    LET search == lower(k)
    IN  \/ StrIn(search, name(ident))
        \/ \E i \in 1..Len(ident.aliases) : ident.aliases[i] = search

\* Identity.matches
matches(ident, k) ==
    LET search == lower(k)
    IN  IF StrIn(search, lower(name(ident))) THEN TRUE
        ELSE IF \E i \in 1..Len(ident.aliases) : lower(ident.aliases[i]) = search
             THEN TRUE
        ELSE FALSE

\* the keys handed to IdentityMap.__getitem__
IntKey(v)      == [type |-> "int", val |-> v]
IdentityKey(v) == [type |-> "Identity", val |-> v]
StrKey(v)      == [type |-> "str", val |-> v]

\* self.map[k] of a dict
mapget(m, k) == IF HasKey(m, k) THEN Ok(ItemOf(m, k).ident) ELSE Raise("KeyError")

\* lines 192 to 196: the scan of the except branch from item i on, and the
\* raise that follows the try
RECURSIVE scanFrom(_, _, _)
scanFrom(m, s, i) ==
    IF i > Len(m) THEN Raise("KeyError")
    ELSE IF matches(m[i].ident, s) THEN Ok(m[i].ident)
    ELSE scanFrom(m, s, i + 1)

\* the scan leaves out the first entry
scan_afterFirst(m, s) == scanFrom(m, s, 2)

scan(m, s) == scanFrom(m, s, 1)

\* the letter codes are compared with the canonical strings of the entries
bycode_canonical(m, p, s) ==
    LET match == parse(p, s)
    IN  IF ~match.ok THEN match
        ELSE IF \E i \in 1..Len(m) : canonical(m[i].ident) = canonical(match.val)
        THEN Ok(m[CHOOSE i \in 1..Len(m) :
                     canonical(m[i].ident) = canonical(match.val)].ident)
        ELSE Raise("KeyError")

\* the try branch of the lookup by str
bycode(m, p, s) ==
    LET match == parse(p, s)
    IN  IF match.ok THEN mapget(m, checksum(match.val)) ELSE match

\* a str is looked up among the names and aliases only
getitem_scanOnly(m, p, k) ==
    IF k.type = "int" THEN mapget(m, k.val)
    ELSE IF k.type = "Identity" THEN mapget(m, checksum(k.val))
    ELSE IF k.type # "str" THEN Raise("KeyError")
    ELSE scan(m, k.val)

\* the names and aliases are scanned before the letter codes are tried
getitem_scanFirst(m, p, k) ==
    IF k.type = "int" THEN mapget(m, k.val)
    ELSE IF k.type = "Identity" THEN mapget(m, checksum(k.val))
    ELSE IF k.type # "str" THEN Raise("KeyError")
    ELSE LET found == scan(m, k.val)
         IN  IF found.ok THEN found ELSE bycode(m, p, k.val)

\* an Identity key finds only the entry constructed from the same colors in
\* the same order
getitem_identityAsGiven(m, p, k) ==
    IF k.type = "int" THEN mapget(m, k.val)
    ELSE IF k.type = "Identity"
    THEN IF \E i \in 1..Len(m) : m[i].ident.colors = k.val.colors
         THEN Ok(m[CHOOSE i \in 1..Len(m) : m[i].ident.colors = k.val.colors].ident)
         ELSE Raise("KeyError")
    ELSE IF k.type # "str" THEN Raise("KeyError")
    ELSE LET tried == bycode(m, p, k.val)
         IN  IF tried.ok THEN tried ELSE scan(m, k.val)

\* IdentityMap.__getitem__
getitem(m, p, k) ==
    IF k.type = "int" THEN mapget(m, k.val)
    ELSE IF k.type = "Identity" THEN mapget(m, checksum(k.val))
    ELSE IF k.type # "str" THEN Raise("KeyError")
    ELSE LET tried == bycode(m, p, k.val)
         IN  IF tried.ok THEN tried ELSE scan(m, k.val)

\* a string is a member only when the registry holds its letter code
contains_codeOnly(m, p, k) ==
    IF k.type = "str" THEN bycode(m, p, k.val).ok ELSE getitem(m, p, k).ok

\* k in idmap: Mapping.__contains__ is self[k], a KeyError is False
contains(m, p, k) == getitem(m, p, k).ok

\* the aliases passed take the place of the stored ones
describe_replacesAliases(ident, nm, al) ==
    LET named == IF nm # None /\ nm[1] # <<>>
                 THEN [ident EXCEPT !._name = nm] ELSE ident
    IN  IF al # None /\ al[1] # <<>>
        THEN [named EXCEPT !.aliases = al[1]] ELSE named

\* Identity.describe; an argument left out is None
describe(ident, nm, al) ==
    LET named == IF nm # None /\ nm[1] # <<>>
                 THEN [ident EXCEPT !._name = nm] ELSE ident
    IN  IF al # None /\ al[1] # <<>>
        THEN [named EXCEPT !.aliases = @ \o al[1]] ELSE named

\* describe reaches every value of the dict
described_everyEntry(m, k, nm, al) ==
    [i \in 1..Len(m) |-> [m[i] EXCEPT !.ident = describe(@, nm, al)]]

\* the dict after describe was called on the value stored under key k
described(m, k, nm, al) ==
    [i \in 1..Len(m) |->
        IF m[i].key = k THEN [m[i] EXCEPT !.ident = describe(@, nm, al)] ELSE m[i]]

----------------------------------------------------------------------------
\* ColorPie.build_identity_map

\* itertools.combinations(colors, k), in the order of the iterator
RECURSIVE Combos(_, _)
Combos(colors, k) ==
    IF k = 0 THEN << <<>> >>
    ELSE IF Len(colors) < k THEN <<>>
    ELSE LET with == Combos(Tail(colors), k - 1)
         IN  [i \in 1..Len(with) |-> <<Head(colors)>> \o with[i]]
             \o Combos(Tail(colors), k)

\* ColorPie.combinations
RECURSIVE combinationsFrom(_, _)
combinationsFrom(p, length) ==
    IF length > Len(p) THEN <<>>
    ELSE LET cs == Combos(p, length)
         IN  [i \in 1..Len(cs) |-> Identity(p, cs[i])] \o combinationsFrom(p, length + 1)

\* the subsets are listed from size 1 on
combinations_fromSizeOne(p) == combinationsFrom(p, 1)

combinations(p) == combinationsFrom(p, 0)

\* the while loop of lines 97 to 101
RECURSIVE chain(_, _, _, _, _)
chain(p, colors, s, i, size) ==
    IF i < size - 1
    THEN chain(p, Append(colors, shift(p, colors[Len(colors)], s)), s, i + 1, size)
    ELSE colors

\* every step that divides the palette size is skipped
skipped_everyDivisor(t, s, size) == t % s = 0

\* the test of line 89
skipped(t, s, size) == t % s = 0 /\ t \div s < size

\* the describe calls of the module, lines 213 to 244, in order
MagicConfig == <<
    [key |-> <<>>, name |-> Some(<<"C","o","l","o","r","l","e","s","s">>),
     aliases |-> None],
    [key |-> <<"w">>, name |-> Some(<<"M","o","n","o","-","W","h","i","t","e">>),
     aliases |-> Some(<<<<"W","h","i","t","e">>>>)],
    [key |-> <<"u">>, name |-> Some(<<"M","o","n","o","-","B","l","u","e">>),
     aliases |-> Some(<<<<"B","l","u","e">>>>)],
    [key |-> <<"b">>, name |-> Some(<<"M","o","n","o","-","B","l","a","c","k">>),
     aliases |-> Some(<<<<"B","l","a","c","k">>>>)],
    [key |-> <<"r">>, name |-> Some(<<"M","o","n","o","-","R","e","d">>),
     aliases |-> Some(<<<<"R","e","d">>>>)],
    [key |-> <<"g">>, name |-> Some(<<"M","o","n","o","-","G","r","e","e","n">>),
     aliases |-> Some(<<<<"G","r","e","e","n">>>>)],
    [key |-> <<"w","u">>, name |-> Some(<<"A","z","o","r","i","u","s">>),
     aliases |-> Some(<<<<"A","z","o","r","i","u","s"," ","S","e","n","a","t","e">>>>)],
    [key |-> <<"u","b">>, name |-> Some(<<"D","i","m","i","r">>),
     aliases |-> Some(<<<<"H","o","u","s","e"," ","D","i","m","i","r">>>>)],
    [key |-> <<"b","r">>, name |-> Some(<<"R","a","k","d","o","s">>),
     aliases |-> Some(<<<<"C","u","l","t"," ","o","f"," ","R","a","k","d","o","s">>>>)],
    [key |-> <<"r","g">>, name |-> Some(<<"G","r","u","u","l">>),
     aliases |-> Some(<<<<"G","r","u","u","l"," ","C","l","a","n","s">>>>)],
    [key |-> <<"g","u">>, name |-> Some(<<"S","i","m","i","c">>),
     aliases |-> Some(<<<<"S","i","m","i","c"," ","C","o","m","b","i","n","e">>, <<"Q","u","a","n","d","r","i","x">>>>)],
    [key |-> <<"g","w">>, name |-> Some(<<"S","e","l","e","s","n","y","a">>),
     aliases |-> Some(<<<<"S","e","l","e","s","n","y","a"," ","C","o","n","c","l","a","v","e">>>>)],
    [key |-> <<"w","b">>, name |-> Some(<<"O","r","z","h","o","v">>),
     aliases |-> Some(<<<<"O","r","z","h","o","v"," ","S","y","n","d","i","c","a","t","e">>, <<"S","i","l","v","e","r","q","u","i","l","l">>>>)],
    [key |-> <<"u","r">>, name |-> Some(<<"I","z","z","e","t">>),
     aliases |-> Some(<<<<"I","z","z","e","t"," ","L","e","a","g","u","e">>, <<"P","r","i","s","m","a","r","i">>>>)],
    [key |-> <<"r","w">>, name |-> Some(<<"B","o","r","o","s">>),
     aliases |-> Some(<<<<"B","o","r","o","s"," ","L","e","g","i","o","n">>, <<"L","o","r","e","h","o","l","d">>>>)],
    [key |-> <<"g","b">>, name |-> Some(<<"G","o","l","g","a","r","i">>),
     aliases |-> Some(<<<<"G","o","l","g","a","r","i"," ","S","w","a","r","m">>, <<"W","i","t","h","e","r","b","l","o","o","m">>>>)],
    [key |-> <<"w","u","b">>, name |-> Some(<<"E","s","p","e","r">>),
     aliases |-> Some(<<<<"O","b","s","c","u","r","a">>>>)],
    [key |-> <<"u","b","r">>, name |-> Some(<<"G","r","i","x","i","s">>),
     aliases |-> Some(<<<<"M","a","e","s","t","r","o","s">>>>)],
    [key |-> <<"b","r","g">>, name |-> Some(<<"J","u","n","d">>),
     aliases |-> Some(<<<<"R","i","v","e","t","e","e","r","s">>>>)],
    [key |-> <<"r","g","w">>, name |-> Some(<<"N","a","y","a">>),
     aliases |-> Some(<<<<"C","a","b","a","r","e","t","t","i">>>>)],
    [key |-> <<"g","u","w">>, name |-> Some(<<"B","a","n","t">>),
     aliases |-> Some(<<<<"B","r","o","k","e","r","s">>>>)],
    [key |-> <<"w","b","g">>, name |-> Some(<<"A","b","z","a","n">>),
     aliases |-> Some(<<<<"A","b","z","a","n"," ","H","o","u","s","e","s">>, <<"I","n","d","a","t","h","a">>>>)],
    [key |-> <<"u","r","w">>, name |-> Some(<<"J","e","s","k","a","i">>),
     aliases |-> Some(<<<<"J","e","s","k","a","i"," ","W","a","y">>, <<"R","a","u","g","r","i","n">>>>)],
    [key |-> <<"b","g","u">>, name |-> Some(<<"S","u","l","t","a","i">>),
     aliases |-> Some(<<<<"S","u","l","t","a","i"," ","B","r","o","o","d">>, <<"Z","a","g","o","t","h">>>>)],
    [key |-> <<"r","w","b">>, name |-> Some(<<"M","a","r","d","u">>),
     aliases |-> Some(<<<<"M","a","r","d","u"," ","H","o","r","d","e">>, <<"S","a","v","a","i">>>>)],
    [key |-> <<"g","u","r">>, name |-> Some(<<"T","e","m","u","r">>),
     aliases |-> Some(<<<<"T","e","m","u","r"," ","F","r","o","n","t","i","e","r">>, <<"K","e","t","r","i","a">>>>)],
    [key |-> <<"w","u","b","r">>, name |-> Some(<<"A","r","t","i","f","i","c","e">>),
     aliases |-> Some(<<<<"Y","o","r","e","-","T","i","l","l","e","r">>, <<"G","r","e","e","n","-","l","e","s","s">>, <<"Y","o","r","e">>>>)],
    [key |-> <<"u","b","r","g">>, name |-> Some(<<"C","h","a","o","s">>),
     aliases |-> Some(<<<<"G","l","i","n","t","-","E","y","e">>, <<"W","h","i","t","e","-","l","e","s","s">>, <<"G","l","i","n","t">>>>)],
    [key |-> <<"b","r","g","w">>, name |-> Some(<<"A","g","g","r","e","s","s","i","o","n">>),
     aliases |-> Some(<<<<"D","u","n","e","-","B","r","o","o","d">>, <<"B","l","u","e","-","l","e","s","s">>, <<"D","u","n","e">>>>)],
    [key |-> <<"r","g","w","u">>, name |-> Some(<<"A","l","t","r","u","i","s","m">>),
     aliases |-> Some(<<<<"I","n","k","-","T","r","e","a","d","e","r">>, <<"B","l","a","c","k","-","l","e","s","s">>, <<"I","n","k">>>>)],
    [key |-> <<"g","w","u","b">>, name |-> Some(<<"G","r","o","w","t","h">>),
     aliases |-> Some(<<<<"W","i","t","c","h","-","M","a","w">>, <<"R","e","d","-","l","e","s","s">>, <<"W","i","t","c","h">>>>)],
    [key |-> <<"w","u","b","r","g">>, name |-> Some(<<"F","i","v","e","-","C","o","l","o","r">>),
     aliases |-> Some(<<<<"5","c">>, <<"R","a","i","n","b","o","w">>>>)]
>>

----------------------------------------------------------------------------
\* Identities compared: the constructor, checksum, canonical and __eq__

Reverse(s) == [i \in 1..Len(s) |-> s[Len(s) + 1 - i]]

\* lists of at most MaxColors colors of the palette p
ColorLists(p) ==
    UNION {[1..k -> {p[i] : i \in 1..Len(p)}] : k \in 0..MaxColors}

InitIdentity ==
    /\ pie \in {MagicColorPie, TestPie}
    /\ argA \in ColorLists(pie)
    /\ argB \in IF pie = TestPie THEN ColorLists(pie) ELSE {<<>>, Reverse(argA)}
    /\ pc = "args"
    /\ idA = None /\ idB = None /\ eq = None /\ calls = <<>>
    /\ idmap = <<>> /\ n = 0 /\ step = 0 /\ ci = 0 /\ cfg = 0
    /\ query = None /\ result = None

Construct ==
    /\ pc = "args"
    /\ idA' = Some(Identity(pie, argA))
    /\ idB' = Some(Identity(pie, argB))
    /\ pc' = "built"
    /\ UNCHANGED <<pie, idmap, n, step, ci, cfg, query, result, argA, argB, eq, calls>>

Compare ==
    /\ pc = "built"
    /\ eq' = Some(IdentityEq(idA[1], idB[1]))
    /\ pc' = "compared"
    /\ UNCHANGED <<pie, idmap, n, step, ci, cfg, query, result, argA, argB, idA, idB, calls>>

NextIdentity == Construct \/ Compare

SpecIdentity == InitIdentity /\ [][NextIdentity]_vars

----------------------------------------------------------------------------
\* An identity described: Identity(pie, colors) receives describe calls

\* the colors of the identities that are described
DescribedColors == {<<>>, <<Blue>>, <<Blue, Red, White>>}

\* the name and alias arguments of describe; None is the argument left out
DescribeNames   == {None, Some(<<>>), Some(<<"f","o","o">>), Some(<<"b","a","r">>)}
DescribeAliases == {None, Some(<<>>), Some(<<<<"a">>>>), Some(<<<<"b">>, <<"a">>>>)}

InitDescribe ==
    /\ pie = TestPie
    /\ argA \in DescribedColors
    /\ argB = <<>>
    /\ pc = "args"
    /\ idA = None /\ idB = None /\ eq = None /\ calls = <<>>
    /\ idmap = <<>> /\ n = 0 /\ step = 0 /\ ci = 0 /\ cfg = 0
    /\ query = None /\ result = None

\* idA.describe(nm, al)
DescribeA ==
    /\ pc = "built"
    /\ Len(calls) < MaxCalls
    /\ \E nm \in DescribeNames, al \in DescribeAliases :
          /\ idA' = Some(describe(idA[1], nm, al))
          /\ calls' = Append(calls, [name |-> nm, aliases |-> al])
    /\ UNCHANGED <<pie, idmap, pc, n, step, ci, cfg, query, result, argA, argB, idB, eq>>

NextDescribe == Construct \/ DescribeA

SpecDescribe == InitDescribe /\ [][NextDescribe]_vars

----------------------------------------------------------------------------
\* The module: palettes are built into registries, the registry of
\* MagicColorPie is configured by the describe calls, then it is looked up

identVars == <<argA, argB, idA, idB, eq, calls>>

Init ==
    /\ pie \in {PaletteOfSize(t) : t \in 0..MaxPie}
    /\ idmap = <<>>
    /\ pc = "start"
    /\ n = 0 /\ step = 0 /\ ci = 0 /\ cfg = 0
    /\ query = None /\ result = None
    /\ argA = None /\ argB = None /\ idA = None /\ idB = None /\ eq = None
    /\ calls = <<>>

\* lines 79 to 85: the empty registry receives the colorless identity
BuildBegin ==
    /\ pc = "start"
    /\ idmap' = add(<<>>, Identity(pie, <<>>))
    /\ n' = 0
    /\ step' = 1
    /\ pc' = "step"
    /\ UNCHANGED <<pie, ci, cfg, query, result, identVars>>

\* lines 89 to 91: the step cannot be fulfilled
SkipStep ==
    /\ pc = "step"
    /\ step <= n
    /\ skipped(Len(pie), step, n)
    /\ step' = step + 1
    /\ UNCHANGED <<pie, idmap, pc, n, ci, cfg, query, result, identVars>>

\* line 93: the loop on the starting colors begins
EnterStep ==
    /\ pc = "step"
    /\ step <= n
    /\ ~skipped(Len(pie), step, n)
    /\ ci' = 1
    /\ pc' = "color"
    /\ UNCHANGED <<pie, idmap, n, step, cfg, query, result, identVars>>

\* lines 94 to 105: the chain of one starting color is built and added
AddChain ==
    /\ pc = "color"
    /\ ci <= Len(pie)
    /\ idmap' = add(idmap, Identity(pie, chain(pie, <<pie[ci]>>, step, 0, n)))
    /\ ci' = ci + 1
    /\ UNCHANGED <<pie, pc, n, step, cfg, query, result, identVars>>

\* the loop on the steps does not advance
EndColors_sameStep ==
    /\ pc = "color"
    /\ ci > Len(pie)
    /\ pc' = "step"
    /\ UNCHANGED <<pie, idmap, n, step, ci, cfg, query, result, identVars>>

\* line 93: the starting colors are exhausted
EndColors ==
    /\ pc = "color"
    /\ ci > Len(pie)
    /\ step' = step + 1
    /\ pc' = "step"
    /\ UNCHANGED <<pie, idmap, n, ci, cfg, query, result, identVars>>

\* lines 85 and 87: the steps are exhausted, the next size begins
NextSize ==
    /\ pc = "step"
    /\ step > n
    /\ n < Len(pie)
    /\ n' = n + 1
    /\ step' = 1
    /\ UNCHANGED <<pie, idmap, pc, ci, cfg, query, result, identVars>>

\* line 107: the registry is returned
BuildReturn ==
    /\ pc = "step"
    /\ step > n
    /\ n = Len(pie)
    /\ pc' = IF pie = MagicColorPie THEN "config" ELSE "ready"
    /\ UNCHANGED <<pie, idmap, n, step, ci, cfg, query, result, identVars>>

\* lines 213 to 244: MagicIdentities[key].describe(name, aliases); a lookup
\* that raises ends the module body
Configure ==
    /\ pc = "config"
    /\ cfg < Len(MagicConfig)
    /\ LET call  == MagicConfig[cfg + 1]
           found == getitem(idmap, pie, StrKey(call.key))
       IN  IF found.ok
           THEN /\ idmap' = described(idmap, checksum(found.val), call.name, call.aliases)
                /\ cfg' = cfg + 1
                /\ pc' = IF cfg + 1 = Len(MagicConfig) THEN "ready" ELSE "config"
                /\ UNCHANGED <<query, result>>
           ELSE /\ pc' = "failed"
                /\ query' = Some(StrKey(call.key))
                /\ result' = Some(found)
                /\ UNCHANGED <<idmap, cfg>>
    /\ UNCHANGED <<pie, n, step, ci, identVars>>

\* a str with upper case at the odd positions and lower case at the others
mixed(s) == [i \in 1..Len(s) |-> IF i % 2 = 1 THEN UpperChar(s[i]) ELSE LowerChar(s[i])]

\* a str in several letter cases
Cases(s) == {s, lower(s), upper(s), mixed(s)}

\* the display names and the aliases given by the describe calls
ConfiguredNames ==
    {MagicConfig[i].name[1] : i \in 1..Len(MagicConfig)}
ConfiguredAliases ==
    UNION {SetOf(MagicConfig[i].aliases[1]) :
              i \in {j \in 1..Len(MagicConfig) : MagicConfig[j].aliases # None}}

\* the strings of distinct symbols of the set S of colors
RECURSIVE LetterCodes(_)
LetterCodes(S) ==
    {<<>>} \cup UNION {{<<c.symbol>> \o r : r \in LetterCodes(S \ {c})} : c \in S}

\* the keys looked up in MagicIdentities
MagicStrKeys ==
    LetterCodes(SetOf(MagicColorPie))
    \cup UNION {Cases(x) : x \in ConfiguredNames \cup ConfiguredAliases}
MagicIdentityKeys ==
    {Identity(MagicColorPie, cs) : cs \in ColorLists(MagicColorPie)}
MagicIntKeys == 0..(2 ^ Len(MagicColorPie))

\* the lookup of the key k in MagicIdentities
Looked(k) ==
    /\ pc = "ready"
    /\ query' = Some(k)
    /\ result' = Some(getitem(idmap, pie, k))
    /\ pc' = "looked"
    /\ UNCHANGED <<pie, idmap, n, step, ci, cfg, identVars>>

\* the membership test of the key k
Tested(k) ==
    /\ pc = "ready"
    /\ query' = Some(k)
    /\ result' = Some(contains(idmap, pie, k))
    /\ pc' = "tested"
    /\ UNCHANGED <<pie, idmap, n, step, ci, cfg, identVars>>

\* the caller has used the outcome of the call and goes on
Resume ==
    /\ pc \in {"looked", "tested", "called"}
    /\ query' = None
    /\ result' = None
    /\ pc' = "ready"
    /\ UNCHANGED <<pie, idmap, n, step, ci, cfg, identVars>>

\* MagicIdentities[k] with a str
LookupStr == pie = MagicColorPie /\ \E s \in MagicStrKeys : Looked(StrKey(s))

\* MagicIdentities[k] with an Identity
LookupIdentity == pie = MagicColorPie /\ \E i \in MagicIdentityKeys : Looked(IdentityKey(i))

\* MagicIdentities[k] with an int
LookupInt == pie = MagicColorPie /\ \E k \in MagicIntKeys : Looked(IntKey(k))

Next ==
    \/ BuildBegin
    \/ SkipStep
    \/ EnterStep
    \/ AddChain
    \/ EndColors
    \/ NextSize
    \/ BuildReturn
    \/ Configure
    \/ LookupStr
    \/ LookupIdentity
    \/ LookupInt
    \/ Resume

Spec == Init /\ [][Next]_vars

----------------------------------------------------------------------------
\* build_identity_map with the while loop of lines 97 to 101 taken one
\* iteration at a time: argA holds the local list colors, and the counter i
\* of the loop, which starts at 0 with one color and grows with the list, is
\* Len(colors) - 1

\* lines 93 to 96: the chain of the next starting color begins
StartChain ==
    /\ pc = "color"
    /\ ci <= Len(pie)
    /\ argA' = Some(<<pie[ci]>>)
    /\ pc' = "pick"
    /\ UNCHANGED <<pie, idmap, n, step, ci, cfg, query, result, argB, idA, idB, eq, calls>>

\* lines 97 to 101: one more color is picked
Pick ==
    /\ pc = "pick"
    /\ Len(argA[1]) - 1 < n - 1
    /\ argA' = Some(Append(argA[1], shift(pie, argA[1][Len(argA[1])], step)))
    /\ UNCHANGED <<pie, idmap, pc, n, step, ci, cfg, query, result, argB, idA, idB, eq, calls>>

\* line 103: the loop has ended, the identity of the chain is constructed
MakeIdent ==
    /\ pc = "pick"
    /\ ~(Len(argA[1]) - 1 < n - 1)
    /\ idA' = Some(Identity(pie, argA[1]))
    /\ argA' = None
    /\ pc' = "add"
    /\ UNCHANGED <<pie, idmap, n, step, ci, cfg, query, result, argB, idB, eq, calls>>

\* line 105: the identity is added, the next starting color follows
AddIdent ==
    /\ pc = "add"
    /\ idmap' = add(idmap, idA[1])
    /\ idA' = None
    /\ ci' = ci + 1
    /\ pc' = "color"
    /\ UNCHANGED <<pie, n, step, cfg, query, result, argA, argB, idB, eq, calls>>

\* the steps of build_identity_map, lines 78 to 107
Build ==
    \/ BuildBegin
    \/ SkipStep
    \/ EnterStep
    \/ StartChain
    \/ Pick
    \/ MakeIdent
    \/ AddIdent
    \/ EndColors
    \/ NextSize
    \/ BuildReturn

\* build_identity_map is one sequential call: while a statement of it can
\* run, the interpreter runs it
SpecBuild == Init /\ [][Build]_vars /\ WF_vars(Build)

----------------------------------------------------------------------------
\* A registry used directly: IdentityMap(ColorPie(Blue, Red)) receives add,
\* describe and lookup calls in any order

RegPie == <<Blue, Red>>

\* the identities handed to add
RegIdentities == {Identity(RegPie, cs) : cs \in ColorLists(RegPie)}

\* the names and aliases handed to describe
RegNames   == {<<"U","r">>}
RegAliases == {<<"R">>, <<"X","r">>}

\* the substrings of s
Substrings(s) == {SubSeq(s, i, j) : i \in 1..(Len(s) + 1), j \in 0..Len(s)}

\* the strings looked up: the letter codes, the names and aliases and their
\* substrings in several letter cases, and a string that is nowhere
RegQueries ==
    LetterCodes(SetOf(RegPie))
    \cup UNION {Cases(x) : x \in UNION {Substrings(y) : y \in RegNames \cup RegAliases}}
    \cup {<<"z">>}

InitRegistry ==
    /\ pie = RegPie
    /\ idmap = <<>>
    /\ pc = "ready"
    /\ n = 0 /\ step = 0 /\ ci = 0 /\ cfg = 0
    /\ query = None /\ result = None
    /\ argA = None /\ argB = None /\ idA = None /\ idB = None /\ eq = None
    /\ calls = <<>>

\* idmap.add(ident)
Add ==
    /\ pc = "ready"
    /\ \E ident \in RegIdentities : idmap' = add(idmap, ident)
    /\ UNCHANGED <<pie, pc, n, step, ci, cfg, query, result, identVars>>

\* describe(nm, al) on the identity stored as item i
Describe ==
    /\ pc = "ready"
    /\ cfg < MaxDescribe
    /\ \E i \in 1..Len(idmap) :
       \E nm \in {None, Some(<<>>)} \cup {Some(x) : x \in RegNames} :
       \E al \in {None, Some(<<>>)} \cup {Some(<<x>>) : x \in RegAliases} :
          idmap' = described(idmap, idmap[i].key, nm, al)
    /\ cfg' = cfg + 1
    /\ UNCHANGED <<pie, pc, n, step, ci, query, result, identVars>>

\* idmap[s] with a str
RegLookupStr == \E s \in RegQueries : Looked(StrKey(s))

\* s in idmap with a str
RegContainsStr == \E s \in RegQueries : Tested(StrKey(s))

\* the checksums and the identities looked up: those of the palette, and
\* the checksum 100 that no identity of the palette has
RegIntKeys == 0..(2 ^ Len(RegPie) - 1) \cup {100}

\* a key that is neither an int, nor an Identity, nor a str
OtherKey == [type |-> "float", val |-> 1]

\* idmap[k] and k in idmap with an int
RegLookupInt   == \E k \in RegIntKeys : Looked(IntKey(k))
RegContainsInt == \E k \in RegIntKeys : Tested(IntKey(k))

\* idmap[ident] and ident in idmap with an Identity
RegLookupIdentity   == \E ident \in RegIdentities : Looked(IdentityKey(ident))
RegContainsIdentity == \E ident \in RegIdentities : Tested(IdentityKey(ident))

\* idmap[1.0]
RegLookupOther == Looked(OtherKey)

NextRegistry ==
    \/ Add
    \/ Describe
    \/ RegLookupStr
    \/ RegContainsStr
    \/ RegLookupInt
    \/ RegContainsInt
    \/ RegLookupIdentity
    \/ RegContainsIdentity
    \/ RegLookupOther
    \/ Resume

SpecRegistry == InitRegistry /\ [][NextRegistry]_vars

----------------------------------------------------------------------------
\* A palette used directly: ColorPie(*args) is constructed, then receives
\* shift, symbol lookup, parse and checksum calls

\* a second Color("u") object, constructed apart from Blue
OtherBlue == Color(7, "u")

\* the str "u" handed over in place of a Color; id 0 marks an object that
\* is not an instance of Color
NotAColor == [id |-> 0, symbol |-> "u"]
IsColor(x) == x.id > 0

\* ColorPie.sanitize: Counter counts the objects, which hash by identity
sanitize(colors) ==
    IF \E i \in 1..Len(colors) : ~IsColor(colors[i])
    THEN Raise("ValueError")
    ELSE IF \E i, j \in 1..Len(colors) : i < j /\ colors[i] = colors[j]
    THEN Raise("ValueError")
    ELSE Ok(colors)

\* the arguments of the constructor
PaletteObjects == {Blue, Red, Purple, OtherBlue, NotAColor}
PaletteArgs ==
    UNION {[1..k -> PaletteObjects] : k \in 0..MaxColors} \cup {MagicColorPie}

\* the arguments of the calls
ShiftColors    == {Blue, Red, Purple, White, OtherBlue}
Steps          == (0 - MaxStep)..MaxStep
PieSymbols     == {"u", "r", "w", "U", "W"}
ParseStrings   == UNION {[1..k -> PieSymbols] : k \in 0..MaxParse}
ChecksumColors == UNION {[1..k -> {Blue, Red, OtherBlue}] : k \in 0..2}

InitPalette ==
    /\ argA \in PaletteArgs
    /\ pie = <<>>
    /\ pc = "new"
    /\ idmap = <<>> /\ n = 0 /\ step = 0 /\ ci = 0 /\ cfg = 0
    /\ query = None /\ result = None
    /\ argB = None /\ idA = None /\ idB = None /\ eq = None /\ calls = <<>>

\* ColorPie(*argA)
NewPie ==
    /\ pc = "new"
    /\ LET colors == sanitize(argA)
       IN  IF colors.ok
           THEN pie' = colors.val /\ pc' = "ready" /\ UNCHANGED result
           ELSE pc' = "invalid" /\ result' = Some(colors) /\ UNCHANGED pie
    /\ UNCHANGED <<idmap, n, step, ci, cfg, query, argA, argB, idA, idB, eq, calls>>

\* a call on the palette with arguments q has the outcome r
Called(q, r) ==
    /\ pc = "ready"
    /\ query' = Some(q)
    /\ result' = Some(r)
    /\ pc' = "called"
    /\ UNCHANGED <<pie, idmap, n, step, ci, cfg, identVars>>

\* pie.shift(c, s)
PieShift ==
    \E c \in ShiftColors, s \in Steps :
        Called([type |-> "shift", color |-> c, step |-> s], shiftCall(pie, c, s))

\* pie[sym]
PieGetItem ==
    \E sym \in PieSymbols : Called([type |-> "getitem", val |-> sym], getcolor(pie, sym))

\* pie.parse(s)
PieParse ==
    \E s \in ParseStrings : Called([type |-> "parse", val |-> s], parse(pie, s))

\* Identity(pie, cs).checksum()
PieChecksum ==
    \E cs \in ChecksumColors :
        Called([type |-> "checksum", colors |-> cs], checksumCall(Identity(pie, cs)))

\* pie.combinations()
PieCombinations == Called([type |-> "combinations"], Ok(combinations(pie)))

NextPalette ==
    \/ NewPie
    \/ PieCombinations
    \/ PieShift
    \/ PieGetItem
    \/ PieParse
    \/ PieChecksum
    \/ Resume

SpecPalette == InitPalette /\ [][NextPalette]_vars

----------------------------------------------------------------------------
\* Properties of identities (SpecIdentity)

\* the elements of s at the positions of their first occurrence, in order
RECURSIVE FirstGiven(_, _)
FirstGiven(s, seen) ==
    IF s = <<>> THEN <<>>
    ELSE IF Head(s) \in seen THEN FirstGiven(Tail(s), seen)
    ELSE <<Head(s)>> \o FirstGiven(Tail(s), seen \cup {Head(s)})

Symbols(colors) == [i \in 1..Len(colors) |-> colors[i].symbol]

\* the colors of the palette p that are in the set S, in palette order
RECURSIVE InPaletteOrder(_, _)
InPaletteOrder(p, S) ==
    IF p = <<>> THEN <<>>
    ELSE IF Head(p) \in S THEN <<Head(p)>> \o InPaletteOrder(Tail(p), S)
    ELSE InPaletteOrder(Tail(p), S)

Colorless == <<"c","o","l","o","r","l","e","s","s">>

\* bit k of the integer v
Bit(v, k) == (v \div (2 ^ k)) % 2

\* C3: two identities over the same palette are equal (__eq__) exactly when
\* their member sets are equal, whatever the order or repetition of the
\* colors given to the constructor.
C3_EqIffSameMembers ==
    pc = "compared" => (eq[1] <=> (SetOf(argA) = SetOf(argB)))

\* C3 witness: two identities built from different lists (different order
\* or a repeated color) have been compared and found equal.
C3_Witness ==
    /\ pc = "compared"
    /\ eq[1]
    /\ argA # argB
    /\ Len(argA) > 1
    /\ \E i, j \in 1..Len(argB) : i # j /\ argB[i] = argB[j]

\* C4: bit k of the checksum is set exactly when the color at palette
\* position k is a member; the empty identity has checksum 0; identities
\* with different member sets have different checksums.
C4_ChecksumIsBitmask ==
    pc # "args" =>
        /\ \A k \in 0..(Len(pie) - 1) :
              (Bit(checksum(idA[1]), k) = 1) <=> (pie[k + 1] \in SetOf(argA))
        /\ checksum(idA[1]) < 2 ^ Len(pie)
        /\ (argA = <<>> => checksum(idA[1]) = 0)
        /\ (SetOf(argA) # SetOf(argB) => checksum(idA[1]) # checksum(idB[1]))

\* C4 witness: two identities of several members each, with different
\* member sets, one of them built with a repeated color.
C4_Witness ==
    /\ pc # "args"
    /\ Cardinality(SetOf(argA)) = 2
    /\ Len(argA) = 3
    /\ Cardinality(SetOf(argB)) = 3
    /\ SetOf(argA) # SetOf(argB)
    /\ checksum(idA[1]) = 6

\* C5 as stated: canonical is "colorless" for the empty identity and
\* otherwise lists the members' symbols in palette order, whatever the order
\* given to the constructor.
C5_CanonicalPaletteOrder ==
    pc # "args" =>
        canonical(idA[1]) =
            IF argA = <<>> THEN Colorless
            ELSE Symbols(InPaletteOrder(pie, SetOf(argA)))

\* C5 amended: canonical is "colorless" for the empty identity and otherwise
\* lists the members' symbols in the order the colors were first given to
\* the constructor, which is palette order only when they were given in
\* palette order.
C5_CanonicalGivenOrder ==
    pc # "args" =>
        /\ canonical(idA[1]) =
              IF argA = <<>> THEN Colorless ELSE Symbols(FirstGiven(argA, {}))
        /\ (pie = MagicColorPie /\ argA = <<Red, White>>
              => canonical(idA[1]) = <<"r","w">>)
        /\ (canonical(idA[1]) = Symbols(InPaletteOrder(pie, SetOf(argA)))
              <=> (argA # <<>> /\ FirstGiven(argA, {}) = InPaletteOrder(pie, SetOf(argA))))

\* C5 witness: the empty identity, and the identity built from [Red, White]
\* over [W,U,B,R,G], have been constructed.
C5_Witness ==
    /\ pc # "args"
    /\ pie = MagicColorPie
    /\ argA = <<Red, White>>
    /\ argB = <<>>
    /\ canonical(idB[1]) = Colorless

\* C6: canonical of a non-empty identity lists the members' symbols in the
\* order the colors were given to the constructor (first occurrence of
\* each): over [Blue, Red, Purple, White], [Red, Blue] gives "ru" and
\* [Blue, Red] gives "ur".
C6_CanonicalInsertionOrder ==
    pc # "args" =>
        /\ (argA # <<>> => canonical(idA[1]) = Symbols(FirstGiven(argA, {})))
        /\ (argB # <<>> => canonical(idB[1]) = Symbols(FirstGiven(argB, {})))
        /\ (pie = TestPie /\ argA = <<Red, Blue>> => canonical(idA[1]) = <<"r","u">>)
        /\ (pie = TestPie /\ argB = <<Blue, Red>> => canonical(idB[1]) = <<"u","r">>)

\* C6 witness: [Red, Blue] and [Blue, Red] have been constructed over
\* [Blue, Red, Purple, White].
C6_Witness ==
    /\ pc # "args"
    /\ pie = TestPie
    /\ argA = <<Red, Blue>>
    /\ argB = <<Blue, Red>>

----------------------------------------------------------------------------
\* Properties of the built and configured registries (Spec)

\* build_identity_map has returned
Built == pc \in {"config", "ready", "looked"}

\* the checksum of the set S of colors of the palette p, from the positions
SubsetKey(p, S) ==
    LET bits == [i \in 1..Len(p) |-> IF p[i] \in S THEN 2 ^ (i - 1) ELSE 0]
    IN  SumSeq(bits)

\* the colors of the palette p that the str s names
Named(p, s) == {p[i] : i \in {j \in 1..Len(p) : p[j].symbol \in SetOf(s)}}

\* every character of s is a symbol of the palette p
IsLetterCode(p, s) == \A i \in 1..Len(s) : \E j \in 1..Len(p) : p[j].symbol = s[i]

\* the canonical strings of the entries of size members, in insertion order
CanonicalsOfSize(m, size) ==
    LET sel == SelectSeq(m, LAMBDA e : Len(e.ident.colors) = size)
    IN  [i \in 1..Len(sel) |-> canonical(sel[i].ident)]

\* (size, step, start) comes before (size2, step2, start2) in the iteration
Earlier(a, b) ==
    \/ a[1] < b[1]
    \/ a[1] = b[1] /\ a[2] < b[2]
    \/ a[1] = b[1] /\ a[2] = b[2] /\ a[3] < b[3]

\* the (size, step, start) of the chains that the iteration builds
Chains(p) ==
    {c \in (1..Len(p)) \X (1..Len(p)) \X (1..Len(p)) :
        c[2] <= c[1] /\ ~(Len(p) % c[2] = 0 /\ Len(p) \div c[2] < c[1])}

ChainOf(p, c) == chain(p, <<p[c[3]]>>, c[2], 0, c[1])

\* C1 as stated: the registry built for a palette of size n holds exactly
\* 2^n entries, one for each subset of the palette, as many as combinations()
\* returns.
C1_RegistryHoldsEverySubset ==
    Built =>
        /\ Len(idmap) = 2 ^ Len(pie)
        /\ Len(idmap) = Len(combinations(pie))
        /\ \A S \in SUBSET SetOf(pie) : HasKey(idmap, SubsetKey(pie, S))

\* C2: in the registry built for [W,U,B,R,G] every entry keeps the member
\* order of the first chain of the iteration that reached its member set,
\* and the canonical strings are the listed ones.
C2_MagicCanonicals ==
    (pie = MagicColorPie /\ pc \in {"config", "ready"}) =>
        /\ CanonicalsOfSize(idmap, 0) = <<Colorless>>
        /\ CanonicalsOfSize(idmap, 1) = <<<<"w">>, <<"u">>, <<"b">>, <<"r">>, <<"g">>>>
        /\ CanonicalsOfSize(idmap, 2) =
              << <<"w","u">>, <<"u","b">>, <<"b","r">>, <<"r","g">>, <<"g","w">>,
                 <<"w","b">>, <<"u","r">>, <<"b","g">>, <<"r","w">>, <<"g","u">> >>
        /\ CanonicalsOfSize(idmap, 3) =
              << <<"w","u","b">>, <<"u","b","r">>, <<"b","r","g">>, <<"r","g","w">>,
                 <<"g","w","u">>, <<"w","b","g">>, <<"u","r","w">>, <<"b","g","u">>,
                 <<"r","w","b">>, <<"g","u","r">> >>
        /\ CanonicalsOfSize(idmap, 4) =
              << <<"w","u","b","r">>, <<"u","b","r","g">>, <<"b","r","g","w">>,
                 <<"r","g","w","u">>, <<"g","w","u","b">> >>
        /\ CanonicalsOfSize(idmap, 5) = << <<"w","u","b","r","g">> >>
        /\ Len(idmap) = 32
        /\ \A i \in 2..Len(idmap) :
              \E c \in Chains(pie) :
                 /\ ChainOf(pie, c) = idmap[i].ident.colors
                 /\ \A d \in Chains(pie) :
                       Earlier(d, c) => SetOf(ChainOf(pie, d)) # SetOf(ChainOf(pie, c))

\* C2 witness: the five-color registry is built, and one of its entries was
\* reached again by a later chain with another member order.
C2_Witness ==
    /\ pie = MagicColorPie
    /\ pc = "config"
    /\ \E i \in 1..Len(idmap) : \E d \in Chains(pie) :
          /\ SetOf(ChainOf(pie, d)) = SetOf(idmap[i].ident.colors)
          /\ ChainOf(pie, d) # idmap[i].ident.colors

\* the describe call of MagicConfig that gave the str s as a name or alias
GivenBy(i, s) ==
    \/ MagicConfig[i].name[1] = s
    \/ MagicConfig[i].aliases # None /\ s \in SetOf(MagicConfig[i].aliases[1])

\* C9: in the configured five-color registry, the lookup of a configured
\* display name or complete alias, in any letter case, returns the identity
\* that the name or alias was attached to.
C9_LookupByNameOrAlias ==
    (pc = "looked" /\ pie = MagicColorPie /\ query[1].type = "str") =>
        \A i \in 1..Len(MagicConfig) :
            \A s \in ConfiguredNames \cup ConfiguredAliases :
                (GivenBy(i, s) /\ query[1].val \in Cases(s)) =>
                    /\ result[1].ok
                    /\ SetOf(result[1].val.colors) = Named(pie, MagicConfig[i].key)
                    /\ lower(s) = lower(name(result[1].val))
                          \/ \E a \in 1..Len(result[1].val.aliases) :
                                lower(s) = lower(result[1].val.aliases[a])

\* C9 witness: an alias was looked up in a letter case other than the
\* configured one, and a name as well.
C9_Witness ==
    /\ pc = "looked"
    /\ pie = MagicColorPie
    /\ query[1].type = "str"
    /\ query[1].val = upper(<<"C","u","l","t"," ","o","f"," ","R","a","k","d","o","s">>)
    /\ result[1].ok
    /\ name(result[1].val) = <<"R","a","k","d","o","s">>

\* C10: the lookup of a letter code does not depend on the order of the
\* letters: every permutation of the symbols of a registered subset gives
\* the entry of that subset, which is the entry that the lookup with an
\* Identity of the same members gives.
C10_LetterOrderIrrelevant ==
    (pc \in {"looked", "failed"} /\ query[1].type = "str" /\ IsLetterCode(pie, query[1].val)
        /\ HasKey(idmap, SubsetKey(pie, Named(pie, query[1].val)))) =>
        LET s     == query[1].val
            entry == ItemOf(idmap, SubsetKey(pie, Named(pie, s))).ident
        IN  /\ result[1].ok
            /\ result[1].val = entry
            /\ SetOf(entry.colors) = Named(pie, s)
            /\ \A cs \in ColorLists(pie) :
                  SetOf(cs) = Named(pie, s) =>
                     getitem(idmap, pie, IdentityKey(Identity(pie, cs))) = result[1]
            /\ (pie = MagicColorPie /\ s \in {<<"r","b">>, <<"b","r">>}
                  => name(result[1].val) = <<"R","a","k","d","o","s">>)
            /\ (pie = MagicColorPie /\ s \in {<<"w","u">>, <<"u","w">>}
                  => name(result[1].val) = <<"A","z","o","r","i","u","s">>)

\* C10 witness: "rb", which is not the canonical string of its entry, was
\* looked up in the five-color registry and gave Rakdos.
C10_Witness ==
    /\ pc = "looked"
    /\ pie = MagicColorPie
    /\ query[1].type = "str"
    /\ query[1].val = <<"r","b">>
    /\ result[1].ok
    /\ canonical(result[1].val) = <<"b","r">>
    /\ name(result[1].val) = <<"R","a","k","d","o","s">>

----------------------------------------------------------------------------
\* Properties of the lookup by str (SpecRegistry)

\* the position in the dict m of the first entry that satisfies hit
FirstPosition(m, hit(_)) ==
    CHOOSE i \in 1..Len(m) : hit(m[i].ident) /\ \A j \in 1..(i - 1) : ~hit(m[j].ident)

\* the letter-code attempt of the lookup of s succeeds
CodeFound(m, p, s) == IsLetterCode(p, s) /\ HasKey(m, SubsetKey(p, Named(p, s)))

NameContains(ident, s) == StrIn(lower(s), lower(name(ident)))
AliasContains(ident, s) ==
    \E i \in 1..Len(ident.aliases) : StrIn(lower(s), lower(ident.aliases[i]))
AliasEquals(ident, s) ==
    \E i \in 1..Len(ident.aliases) : lower(s) = lower(ident.aliases[i])

\* C7: when the string parses as letter codes and the parsed checksum is
\* registered, the lookup gives the entry registered under that checksum,
\* even when an earlier entry has a name or alias that contains the string.
C7_LetterCodeFirst ==
    (pc = "looked" /\ query[1].type = "str" /\ CodeFound(idmap, pie, query[1].val)) =>
        /\ result[1].ok
        /\ result[1].val = ItemOf(idmap, SubsetKey(pie, Named(pie, query[1].val))).ident
        /\ checksum(result[1].val) = SubsetKey(pie, Named(pie, query[1].val))

\* C7 witness: a registered letter code was looked up while an entry
\* earlier in insertion order had a name or alias containing the string.
C7_Witness ==
    /\ pc = "looked"
    /\ query[1].type = "str"
    /\ query[1].val # <<>>
    /\ CodeFound(idmap, pie, query[1].val)
    /\ result[1].ok
    /\ \E i, j \in 1..Len(idmap) :
          /\ i < j
          /\ idmap[j].ident = result[1].val
          /\ NameContains(idmap[i].ident, query[1].val)
                \/ AliasContains(idmap[i].ident, query[1].val)

\* C8 as stated: when the letter-code attempt fails, the lookup gives the
\* first entry in insertion order whose display name contains the string or
\* one of whose aliases contains the string, compared case-insensitively.
C8_ScanBySubstring ==
    (pc = "looked" /\ query[1].type = "str" /\ ~CodeFound(idmap, pie, query[1].val)) =>
        LET s      == query[1].val
            hit(e) == NameContains(e, s) \/ AliasContains(e, s)
        IN  (\E i \in 1..Len(idmap) : hit(idmap[i].ident)) =>
                /\ result[1].ok
                /\ result[1].val = idmap[FirstPosition(idmap, hit)].ident

\* C8 amended: when the letter-code attempt fails, the lookup gives the
\* first entry in insertion order whose display name contains the string or
\* one of whose aliases is equal to the string, compared case-insensitively.
C8_ScanByNameOrWholeAlias ==
    (pc = "looked" /\ query[1].type = "str" /\ ~CodeFound(idmap, pie, query[1].val)) =>
        LET s      == query[1].val
            hit(e) == NameContains(e, s) \/ AliasEquals(e, s)
        IN  (\E i \in 1..Len(idmap) : hit(idmap[i].ident)) =>
                /\ result[1].ok
                /\ result[1].val = idmap[FirstPosition(idmap, hit)].ident

\* C8 witness: a string with an upper-case letter was looked up, the first
\* entry was found by its alias alone and a later entry matched by name.
C8_Witness ==
    /\ pc = "looked"
    /\ query[1].type = "str"
    /\ ~IsLetterCode(pie, query[1].val)
    /\ query[1].val # lower(query[1].val)
    /\ result[1].ok
    /\ \E i, j \in 1..Len(idmap) :
          /\ i < j
          /\ idmap[i].ident = result[1].val
          /\ AliasEquals(idmap[i].ident, query[1].val)
          /\ ~NameContains(idmap[i].ident, query[1].val)
          /\ NameContains(idmap[j].ident, query[1].val)

----------------------------------------------------------------------------
\* Properties of the membership test (SpecRegistry)

\* some entry of m matches the string s by name or by a whole alias
ScanFinds(m, s) ==
    \E i \in 1..Len(m) : NameContains(m[i].ident, s) \/ AliasEquals(m[i].ident, s)

\* C11 as stated: on a registry reached by add calls alone, a string made
\* only of palette symbols is a member only if the checksum of the parsed
\* member set is registered; a letter code whose subset has no entry is
\* reported as absent.
C11_MemberOnlyIfRegistered ==
    (/\ pc = "tested"
     /\ cfg = 0
     /\ query[1].type = "str"
     /\ IsLetterCode(pie, query[1].val)
     /\ result[1]) =>
        HasKey(idmap, SubsetKey(pie, Named(pie, query[1].val)))

\* C11 amended: a string made only of palette symbols is a member exactly
\* when the checksum of the parsed member set is registered or some entry
\* has a display name that contains the string or an alias equal to it,
\* compared case-insensitively; a letter code whose subset has no entry is
\* reported as absent when no entry matches it in that way.
C11_MemberByCodeOrScan ==
    (/\ pc = "tested"
     /\ query[1].type = "str"
     /\ IsLetterCode(pie, query[1].val)) =>
        (result[1] <=>
            \/ HasKey(idmap, SubsetKey(pie, Named(pie, query[1].val)))
            \/ ScanFinds(idmap, query[1].val))

\* C11 witness: on a registry that holds entries, a letter code whose
\* subset has no entry was tested and reported as absent.
C11_Witness ==
    /\ pc = "tested"
    /\ idmap # <<>>
    /\ query[1].type = "str"
    /\ query[1].val # <<>>
    /\ IsLetterCode(pie, query[1].val)
    /\ ~HasKey(idmap, SubsetKey(pie, Named(pie, query[1].val)))
    /\ ~result[1]

----------------------------------------------------------------------------
\* Properties of the registry under add and describe (SpecRegistry)

\* the step is an add call: the registry is ready before and after, and no
\* describe call was counted
AddStep == pc = "ready" /\ pc' = "ready" /\ cfg' = cfg

\* C12: the identity stored for a checksum is the first one that was added
\* with it.  In every step each entry keeps its position, its key and the
\* colors its identity was constructed with, so no entry is replaced or
\* removed; an add call leaves the map unchanged when the checksum is
\* already a key, and otherwise appends one entry under a new key.
C12_FirstAddWins ==
    [][/\ Len(idmap') >= Len(idmap)
       /\ \A i \in 1..Len(idmap) :
             /\ idmap'[i].key = idmap[i].key
             /\ idmap'[i].ident.colors = idmap[i].ident.colors
       /\ AddStep =>
             \/ idmap' = idmap
             \/ /\ Len(idmap') = Len(idmap) + 1
                /\ SubSeq(idmap', 1, Len(idmap)) = idmap
                /\ ~HasKey(idmap, idmap'[Len(idmap')].key)]_vars

\* C12 witness: the registry holds every checksum of the palette, so that
\* each further add repeats a checksum; the two-color entry is the identity
\* that was constructed from [Red, Blue], and an entry has been described.
C12_Witness ==
    /\ pc = "ready"
    /\ Len(idmap) = 2 ^ Len(pie)
    /\ cfg > 0
    /\ \E i \in 1..Len(idmap) :
          /\ idmap[i].key = 3
          /\ idmap[i].ident.colors = <<Red, Blue>>
          /\ idmap[i].ident.aliases # <<>>

\* C13: in every state of a registry that received add, describe, lookup
\* and membership calls, each key maps to an identity whose checksum is the
\* key, and no two entries have the same member set.
C13_KeyIsChecksum ==
    /\ \A i \in 1..Len(idmap) :
          /\ idmap[i].key = checksum(idmap[i].ident)
          /\ idmap[i].key = SubsetKey(pie, SetOf(idmap[i].ident.colors))
    /\ \A i, j \in 1..Len(idmap) :
          SetOf(idmap[i].ident.colors) = SetOf(idmap[j].ident.colors) => i = j

\* C13 witness: a lookup has returned from a registry that holds every
\* subset of the palette and in which the two-color entry was described.
C13_Witness ==
    /\ pc = "looked"
    /\ result[1].ok
    /\ Len(idmap) = 2 ^ Len(pie)
    /\ \E i \in 1..Len(idmap) :
          /\ Len(idmap[i].ident.colors) = 2
          /\ idmap[i].ident._name # None

----------------------------------------------------------------------------
\* Properties of describe (SpecDescribe)

\* the alias lists passed by the calls cs, concatenated in call order
RECURSIVE PassedAliases(_)
PassedAliases(cs) ==
    IF cs = <<>> THEN <<>>
    ELSE (IF Head(cs).aliases = None THEN <<>> ELSE Head(cs).aliases[1])
         \o PassedAliases(Tail(cs))

\* the calls of cs that passed a name, and those that passed a name that is
\* not the empty string
PassedName(cs)   == {k \in 1..Len(cs) : cs[k].name # None}
PassedNamed(cs)  == {k \in 1..Len(cs) : cs[k].name # None /\ cs[k].name[1] # <<>>}

\* the greatest element of a non-empty set of numbers
Last(S) == CHOOSE k \in S : \A j \in S : j <= k

\* C14 as stated: the alias list is the concatenation, in call order, of
\* every alias list that was passed, and the display name is the name
\* passed by the last call that passed one.
C14_NameOfLastCall ==
    pc = "built" =>
        /\ idA[1].aliases = PassedAliases(calls)
        /\ PassedName(calls) # {} =>
              name(idA[1]) = calls[Last(PassedName(calls))].name[1]

\* the step is a describe call on identity A
DescribeStep == calls' # calls

\* C14 amended: the alias list is the concatenation, in call order, of every
\* alias list that was passed, neither replaced nor deduplicated, and the
\* display name is the name passed by the last call that passed a name that
\* is not empty; a call that passes only a name leaves the aliases
\* unchanged and a call that passes only aliases leaves the name unchanged.
C14_NameOfLastNamedCall ==
    /\ [](pc = "built" =>
            /\ idA[1].aliases = PassedAliases(calls)
            /\ PassedNamed(calls) # {} =>
                  name(idA[1]) = calls[Last(PassedNamed(calls))].name[1])
    /\ [][DescribeStep =>
            LET call == calls'[Len(calls')]
            IN  /\ call.aliases = None => idA'[1].aliases = idA[1].aliases
                /\ call.name = None => name(idA'[1]) = name(idA[1])]_vars

\* C14 witness: three calls were made: a name with an alias list, an alias
\* list alone that repeats an alias, then another name alone.
C14_Witness ==
    /\ pc = "built"
    /\ Len(calls) = 3
    /\ calls[1].name \notin {None, Some(<<>>)} /\ calls[1].aliases \notin {None, Some(<<>>)}
    /\ calls[2].name = None /\ calls[2].aliases \notin {None, Some(<<>>)}
    /\ calls[3].name \notin {None, Some(<<>>), calls[1].name} /\ calls[3].aliases = None
    /\ \E i, j \in 1..Len(idA[1].aliases) : i # j /\ idA[1].aliases[i] = idA[1].aliases[j]
    /\ name(idA[1]) = calls[3].name[1]

\* C15 as stated: the display name equals the canonical string as long as
\* no describe call has passed a name, and the passed name afterwards.
C15_NameOncePassed ==
    pc = "built" =>
        name(idA[1]) = IF PassedName(calls) = {}
                       THEN canonical(idA[1])
                       ELSE calls[Last(PassedName(calls))].name[1]

\* C15 amended: the display name equals the canonical string as long as no
\* describe call has passed a name that is not empty, and equals the last
\* such name afterwards.
C15_NameOnceNamed ==
    pc = "built" =>
        name(idA[1]) = IF PassedNamed(calls) = {}
                       THEN canonical(idA[1])
                       ELSE calls[Last(PassedNamed(calls))].name[1]

\* C15 witness: an identity with colors was described by aliases alone and
\* then by a name, which is its display name and not its canonical string.
C15_Witness ==
    /\ pc = "built"
    /\ idA[1].colors # <<>>
    /\ Len(calls) >= 2
    /\ calls[1].name = None /\ calls[1].aliases \notin {None, Some(<<>>)}
    /\ calls[Len(calls)].name \notin {None, Some(<<>>)}
    /\ name(idA[1]) = calls[Len(calls)].name[1]
    /\ name(idA[1]) # canonical(idA[1])

----------------------------------------------------------------------------
\* End to end on MagicColorPie (Spec)

MonoWhite  == <<"M","o","n","o","-","W","h","i","t","e">>
WhiteAlias == <<"W","h","i","t","e">>

\* C16: for the palette [W,U,B,R,G] the built registry has 32 entries and
\* the lookup of "w" returns an entry of canonical string "w"; once
\* describe("Mono-White", ["White"]) was called on that entry, the lookup of
\* "white" returns the very same entry as the lookup of "w".
C16_EndToEnd ==
    (pie = MagicColorPie /\ Built) =>
        LET w == getitem(idmap, pie, StrKey(<<"w">>))
        IN  /\ Len(idmap) = 32
            /\ w.ok
            /\ canonical(w.val) = <<"w">>
            /\ LET m     == described(idmap, checksum(w.val),
                                      Some(MonoWhite), Some(<<WhiteAlias>>))
                   white == getitem(m, pie, StrKey(<<"w","h","i","t","e">>))
               IN  /\ white.ok
                   /\ white = getitem(m, pie, StrKey(<<"w">>))
                   /\ white.val = ItemOf(m, 1).ident
            /\ cfg >= 2 =>
                  /\ getitem(idmap, pie, StrKey(<<"w","h","i","t","e">>)) = w
                  /\ name(w.val) = MonoWhite
            /\ (/\ pc = "looked"
                /\ query[1].type = "str"
                /\ query[1].val = <<"w","h","i","t","e">>) =>
                  result[1] = w

\* C16 witness: in the registry of 32 entries, after the describe calls, the
\* lookup of "white" has returned the entry of canonical string "w".
C16_Witness ==
    /\ pie = MagicColorPie
    /\ pc = "looked"
    /\ Len(idmap) = 32
    /\ query[1].type = "str"
    /\ query[1].val = <<"w","h","i","t","e">>
    /\ result[1].ok
    /\ canonical(result[1].val) = <<"w">>
    /\ WhiteAlias \in SetOf(result[1].val.aliases)

----------------------------------------------------------------------------
\* Properties of the palette (SpecPalette)

\* two of the objects of the list have the same symbol
SharedSymbol(colors) ==
    \E i, j \in 1..Len(colors) : i < j /\ colors[i].symbol = colors[j].symbol

\* the 0-based position in p of the object c, which p holds
PositionOf(p, c) == (CHOOSE i \in 1..Len(p) : p[i] = c) - 1

\* the first color of p that has the symbol sym
FirstWithSymbol(p, sym) ==
    p[CHOOSE i \in 1..Len(p) : p[i].symbol = sym /\ \A j \in 1..(i - 1) : p[j].symbol # sym]

\* C17: constructing a palette in which two entries share a symbol fails
\* with a validation error and yields no palette, and a palette that is
\* constructed never has two entries with the same symbol.
C17_NoSharedSymbol ==
    /\ (pc # "new" /\ SharedSymbol(argA)) =>
          /\ pc = "invalid"
          /\ ~result[1].ok
          /\ result[1].err = "ValueError"
    /\ pc \in {"ready", "called"} => ~SharedSymbol(pie)

\* C18 as stated: symbols are matched case-insensitively, so looking up or
\* parsing the upper-case form of a symbol gives the same color, and the
\* same identity, as its lower-case form.
C18_SymbolsAnyCase ==
    (pc = "called" /\ query[1].type \in {"getitem", "parse"}) =>
        result[1] = IF query[1].type = "getitem"
                    THEN getcolor(pie, LowerChar(query[1].val))
                    ELSE parse(pie, lower(query[1].val))

\* C18 amended: symbols are matched in the letter case they were given.  The
\* lookup of a character gives the first color whose symbol is that very
\* character and raises KeyError when there is none; parse succeeds exactly
\* when every character is the symbol of a color, so the upper-case form of
\* a lower-case symbol is not found: parse("W") raises KeyError on the
\* palette [w,u,b,r,g] while parse("w") gives the identity of White.
C18_SymbolsExactCase ==
    (pc = "called" /\ query[1].type \in {"getitem", "parse"}) =>
        LET Has(c) == \E i \in 1..Len(pie) : pie[i].symbol = c
        IN  IF query[1].type = "getitem"
            THEN IF Has(query[1].val)
                 THEN result[1] = Ok(FirstWithSymbol(pie, query[1].val))
                 ELSE result[1] = RaiseAt("KeyError", query[1].val)
            ELSE LET s == query[1].val
                 IN  IF \A k \in 1..Len(s) : Has(s[k])
                     THEN /\ result[1].ok
                          /\ SetOf(result[1].val.colors)
                                = {FirstWithSymbol(pie, s[k]) : k \in 1..Len(s)}
                     ELSE ~result[1].ok /\ result[1].err = "KeyError"

\* C18 witness: on the palette [w,u,b,r,g], parse("W") has raised KeyError
\* although parse("w") gives an identity.
C18_Witness ==
    /\ pc = "called"
    /\ pie = MagicColorPie
    /\ query[1].type = "parse"
    /\ query[1].val = <<"W">>
    /\ result[1] = RaiseAt("KeyError", "W")
    /\ parse(pie, <<"w">>).ok

\* the result of the call when the palette's own colors of the same symbols
\* are given in place of the colors of the query
OwnColors(p, cs) == [k \in 1..Len(cs) |-> FirstWithSymbol(p, cs[k].symbol)]

\* C19 as stated: colors are equal by symbol, so shift and checksum accept a
\* separately constructed Color with the symbol of a palette element and
\* give the same result as for the palette's own element.
C19_EqualBySymbol ==
    /\ (/\ pc = "called"
        /\ query[1].type = "shift"
        /\ \E i \in 1..Len(pie) : pie[i].symbol = query[1].color.symbol) =>
           result[1] = shiftCall(pie, FirstWithSymbol(pie, query[1].color.symbol),
                                 query[1].step)
    /\ (/\ pc = "called"
        /\ query[1].type = "checksum"
        /\ \A k \in 1..Len(query[1].colors) :
              \E i \in 1..Len(pie) : pie[i].symbol = query[1].colors[k].symbol) =>
           result[1] = checksumCall(Identity(pie, OwnColors(pie, query[1].colors)))

\* C19 amended: colors are compared by object identity.  shift and checksum
\* succeed exactly for the palette's own elements; given a separately
\* constructed Color, even one with the symbol of a palette element, they
\* raise ValueError.
C19_EqualByIdentity ==
    /\ (pc = "called" /\ query[1].type = "shift") =>
           IF query[1].color \in SetOf(pie)
           THEN result[1].ok
           ELSE result[1] = Raise("ValueError")
    /\ (pc = "called" /\ query[1].type = "checksum") =>
           IF SetOf(query[1].colors) \subseteq SetOf(pie)
           THEN result[1] = Ok(SubsetKey(pie, SetOf(query[1].colors)))
           ELSE result[1] = Raise("ValueError")

\* C19 witness: the palette holds Blue and not the second Color("u"); shift
\* was called with the second Color("u") and raised ValueError.
C19_Witness ==
    /\ pc = "called"
    /\ query[1].type = "shift"
    /\ query[1].color = OtherBlue
    /\ Blue \in SetOf(pie)
    /\ OtherBlue \notin SetOf(pie)
    /\ result[1] = Raise("ValueError")

\* C20: for a member color c at position i of a palette of length L > 0 and
\* any step s, shift(c, s) is the element at position (i + s) mod L; hence
\* shift(shift(c, s), -s) = c and shift(c, L) = c.
C20_ShiftIsCircular ==
    (pc = "called" /\ query[1].type = "shift" /\ query[1].color \in SetOf(pie)) =>
        LET c == query[1].color
            s == query[1].step
            L == Len(pie)
            i == PositionOf(pie, c)
        IN  /\ result[1].ok
            /\ \E j \in 0..(L - 1) :
                  /\ \E k \in (0 - MaxStep - 1)..(MaxStep + 1) : i + s = j + k * L
                  /\ result[1].val = pie[j + 1]
            /\ shiftCall(pie, result[1].val, 0 - s) = Ok(c)
            /\ shiftCall(pie, c, L) = Ok(c)
            /\ shiftCall(pie, c, 1) = Ok(pie[IF i + 1 = L THEN 1 ELSE i + 2])

\* C20 witness: on a palette of three colors or more, a backward step from a
\* member color has wrapped around the start of the palette.
C20_Witness ==
    /\ pc = "called"
    /\ query[1].type = "shift"
    /\ Len(pie) >= 3
    /\ query[1].color \in SetOf(pie)
    /\ query[1].step < 0
    /\ PositionOf(pie, query[1].color) + query[1].step < 0
    /\ result[1].ok
    /\ result[1].val # query[1].color

\* C21: shift on a color that is not a member of the palette fails with the
\* not-found error of the position lookup (ValueError) and returns no color,
\* whatever the step and whatever the palette, the empty one included.
C21_ShiftNonMemberFails ==
    (/\ pc = "called"
     /\ query[1].type = "shift"
     /\ \A i \in 1..Len(pie) : pie[i] # query[1].color) =>
        /\ ~result[1].ok
        /\ result[1].err = "ValueError"

\* C21 witness: on a palette that holds colors, shift was called with a
\* color of another symbol and a backward step, and it raised.
C21_Witness ==
    /\ pc = "called"
    /\ query[1].type = "shift"
    /\ pie # <<>>
    /\ \A i \in 1..Len(pie) : pie[i].symbol # query[1].color.symbol
    /\ query[1].step < 0
    /\ ~result[1].ok

\* the positions of the str s whose character is the symbol of no color of p
Unknown(p, s) == {k \in 1..Len(s) : \A i \in 1..Len(p) : p[i].symbol # s[k]}

\* C22: parse(s) on a string whose characters are all palette symbols gives
\* an identity of the palette whose members are exactly the colors named in
\* s, in the order given (a color named again keeps its first place); when
\* some character is not a palette symbol, parse raises KeyError for the
\* first such character and gives no identity.
C22_ParseInGivenOrder ==
    (pc = "called" /\ query[1].type = "parse") =>
        LET s == query[1].val
        IN  IF Unknown(pie, s) = {}
            THEN /\ result[1].ok
                 /\ result[1].val.pie = pie
                 /\ result[1].val.colors =
                       FirstGiven([k \in 1..Len(s) |-> FirstWithSymbol(pie, s[k])], {})
                 /\ Symbols(result[1].val.colors) = FirstGiven(s, {})
            ELSE /\ ~result[1].ok
                 /\ result[1].err = "KeyError"
                 /\ result[1].key = s[CHOOSE k \in Unknown(pie, s) :
                                         \A j \in Unknown(pie, s) : k <= j]

\* C22 witness: a string of two palette symbols, given against the order of
\* the palette, was parsed into an identity of two colors in the given
\* order; the same string followed by "U" and "W", which the palette does
\* not have, raises KeyError for "U".
C22_Witness ==
    /\ pc = "called"
    /\ query[1].type = "parse"
    /\ result[1].ok
    /\ Len(result[1].val.colors) = 2
    /\ PositionOf(pie, result[1].val.colors[1]) > PositionOf(pie, result[1].val.colors[2])
    /\ Unknown(pie, <<"U", "W">>) = {1, 2}
    /\ parse(pie, query[1].val \o <<"U", "W">>) = RaiseAt("KeyError", "U")

\* C23: for a palette of size n, combinations() gives exactly 2^n
\* identities, pairwise unequal, one for each subset of the palette, listed
\* by increasing subset size, each with its members in palette order.
C23_CombinationsAreTheSubsets ==
    (pc = "called" /\ query[1].type = "combinations") =>
        LET r == result[1].val
        IN  /\ result[1].ok
            /\ Len(r) = 2 ^ Len(pie)
            /\ \A i, j \in 1..Len(r) : i # j => ~IdentityEq(r[i], r[j])
            /\ \A S \in SUBSET SetOf(pie) : \E i \in 1..Len(r) : SetOf(r[i].colors) = S
            /\ \A i, j \in 1..Len(r) : i < j => Len(r[i].colors) <= Len(r[j].colors)
            /\ \A i \in 1..Len(r) :
                  /\ r[i].pie = pie
                  /\ \A a, b \in 1..Len(r[i].colors) :
                        a < b => PositionOf(pie, r[i].colors[a]) < PositionOf(pie, r[i].colors[b])

\* C23 witness: combinations() was called on the five-color palette and
\* gave 32 identities, the colorless one first and the full palette last.
C23_Witness ==
    /\ pc = "called"
    /\ query[1].type = "combinations"
    /\ pie = MagicColorPie
    /\ Len(result[1].val) = 32
    /\ result[1].val[1].colors = <<>>
    /\ result[1].val[32].colors = MagicColorPie

----------------------------------------------------------------------------
\* Properties of the lookups by checksum, by Identity and by other keys
\* (SpecRegistry)

\* the checksum an int or Identity key stands for
KeyChecksum(p, k) ==
    IF k.type = "int" THEN k.val ELSE SubsetKey(p, SetOf(k.val.colors))

\* C24: a lookup by integer checksum gives the entry stored under that
\* checksum and raises KeyError when there is none; a lookup by Identity
\* gives the outcome of the lookup by the checksum of that identity, and the
\* membership tests with an int or an Identity agree with these lookups.
C24_LookupByChecksum ==
    /\ (pc = "looked" /\ query[1].type \in {"int", "Identity"}) =>
          /\ IF HasKey(idmap, KeyChecksum(pie, query[1]))
             THEN result[1] = Ok(ItemOf(idmap, KeyChecksum(pie, query[1])).ident)
             ELSE result[1] = Raise("KeyError")
          /\ query[1].type = "Identity" =>
                result[1] = getitem(idmap, pie, IntKey(checksum(query[1].val)))
    /\ (pc = "tested" /\ query[1].type \in {"int", "Identity"}) =>
          /\ result[1] <=> HasKey(idmap, KeyChecksum(pie, query[1]))
          /\ result[1] <=> getitem(idmap, pie, query[1]).ok

\* C24 witness: the registry holds the identity constructed from
\* [Blue, Red] and not every checksum; the lookup by the identity
\* constructed from [Red, Blue] has returned the stored one.
C24_Witness ==
    /\ pc = "looked"
    /\ query[1].type = "Identity"
    /\ query[1].val.colors = <<Red, Blue>>
    /\ Len(idmap) < 2 ^ Len(pie)
    /\ result[1].ok
    /\ result[1].val.colors = <<Blue, Red>>

\* the step is a lookup or a membership test that fails
FailedLookup ==
    /\ pc = "ready"
    /\ \/ pc' = "looked" /\ ~result'[1].ok
       \/ pc' = "tested" /\ ~result'[1]

\* C25: a string lookup raises KeyError exactly when neither attempt
\* succeeds: the letter-code attempt finds no registered entry and no entry
\* matches by name or alias.  A lookup with a key that is neither an int,
\* nor an Identity, nor a str raises KeyError.  A lookup that fails leaves
\* the registry and the name and aliases of every identity unchanged.
C25_FailsWhenNeitherAttempt ==
    /\ [](pc = "looked" =>
            /\ query[1].type = "str" =>
                  /\ ~result[1].ok <=>
                        /\ ~CodeFound(idmap, pie, query[1].val)
                        /\ ~ScanFinds(idmap, query[1].val)
                  /\ ~result[1].ok => result[1] = Raise("KeyError")
            /\ query[1].type \notin {"int", "Identity", "str"} =>
                  result[1] = Raise("KeyError"))
    /\ [][FailedLookup => idmap' = idmap]_vars

\* C25 witness: on a registry with a described entry, the lookup of a
\* letter code that parses, whose checksum is not registered and that no
\* name or alias matches, has raised KeyError.
C25_Witness ==
    /\ pc = "looked"
    /\ cfg > 0
    /\ query[1].type = "str"
    /\ query[1].val # <<>>
    /\ IsLetterCode(pie, query[1].val)
    /\ \E i \in 1..Len(idmap) : idmap[i].ident.aliases # <<>>
    /\ ~result[1].ok

----------------------------------------------------------------------------
\* Properties of build_identity_map (Spec)

\* the chain that the last AddChain step has built and added
LastChain == chain(pie, <<pie[ci - 1]>>, step, 0, n)

\* C26: a step is skipped for a target size exactly when t mod step = 0 and
\* t / step < n, and every chain built for a step that is not skipped holds
\* n distinct colors: no color is visited twice and the registered identity
\* has exactly n members.
C26_ChainsHoldDistinctColors ==
    /\ pc = "color" =>
          ~(Len(pie) % step = 0 /\ Len(pie) \div step < n)
    /\ (pc = "color" /\ ci > 1) =>
          /\ Len(LastChain) = n
          /\ Cardinality(SetOf(LastChain)) = n
          /\ HasKey(idmap, SubsetKey(pie, SetOf(LastChain)))
          /\ Len(ItemOf(idmap, SubsetKey(pie, SetOf(LastChain))).ident.colors) = n

----------------------------------------------------------------------------
\* The frame of describe (SpecRegistry)

\* C27: a describe call changes only the name and aliases of the identity it
\* is called on: the keys, the size and the iteration order of the registry,
\* the palette, members, checksum and canonical string of every identity,
\* and the name and aliases of every other identity are unchanged.
C27_DescribeFrame ==
    [][cfg' # cfg =>
          /\ Len(idmap') = Len(idmap)
          /\ \A i \in 1..Len(idmap) :
                /\ idmap'[i].key = idmap[i].key
                /\ idmap'[i].ident.pie = idmap[i].ident.pie
                /\ idmap'[i].ident.colors = idmap[i].ident.colors
                /\ checksum(idmap'[i].ident) = checksum(idmap[i].ident)
                /\ canonical(idmap'[i].ident) = canonical(idmap[i].ident)
          /\ \E j \in 1..Len(idmap) :
                \A i \in 1..Len(idmap) : i # j => idmap'[i] = idmap[i]
          /\ pie' = pie]_vars

\* C27 witness: in a registry of three entries or more, one entry has
\* received a name and an alias and every other entry has neither.
C27_Witness ==
    /\ pc = "ready"
    /\ cfg = 1
    /\ Len(idmap) >= 3
    /\ \E j \in 1..Len(idmap) :
          /\ idmap[j].ident._name # None
          /\ idmap[j].ident.aliases # <<>>
          /\ \A i \in 1..Len(idmap) :
                i # j => idmap[i].ident._name = None /\ idmap[i].ident.aliases = <<>>

----------------------------------------------------------------------------
\* Termination of build_identity_map (SpecBuild)

\* C28: build_identity_map terminates for every palette size: the loops on
\* the target size, the step and the starting color reach their end, line
\* 107 is reached and a registry that holds the colorless identity at least
\* is returned.
C28_BuildTerminates ==
    <>(/\ pc \in {"config", "ready"}
       /\ n = Len(pie)
       /\ step = n + 1
       /\ idmap # <<>>)

\* C28 witness: the build of the six-color palette has returned its registry.
C28_Witness ==
    /\ pc = "ready"
    /\ Len(pie) = 6
    /\ n = 6
    /\ step = 7
    /\ Len(idmap) > 1

----------------------------------------------------------------------------
\* The registry that build_identity_map returns (Spec)

\* C29: the registry built for a palette of t colors has the colorless
\* identity, of checksum 0, as its first entry, every key lies in
\* 0..2^t - 1, and the registry holds every single color, every pair of
\* colors that are neighbours on the wheel and the full palette.
C29_BuiltRegistryShape ==
    Built =>
        /\ idmap # <<>>
        /\ idmap[1].key = 0
        /\ idmap[1].ident.colors = <<>>
        /\ \A i \in 1..Len(idmap) : idmap[i].key \in 0..(2 ^ Len(pie) - 1)
        /\ \A i \in 1..Len(pie) : HasKey(idmap, SubsetKey(pie, {pie[i]}))
        /\ \A i \in 1..Len(pie) :
              HasKey(idmap, SubsetKey(pie, {pie[i], pie[(i % Len(pie)) + 1]}))
        /\ HasKey(idmap, SubsetKey(pie, SetOf(pie)))

\* C29 witness: the registry of the six-color palette has been returned and
\* it holds more than the colorless identity, the six colors, the six pairs
\* of neighbours and the full palette.
C29_Witness ==
    /\ pc = "ready"
    /\ Len(pie) = 6
    /\ Len(idmap) > 1 + 6 + 6 + 1
    /\ HasKey(idmap, SubsetKey(pie, {pie[6], pie[1]}))

----------------------------------------------------------------------------
\* The describe calls of the module body (Spec)

\* the outcome of the letter-code attempt for the key of the i-th call
ConfigTried(i) == bycode(idmap, pie, MagicConfig[i].key)

\* the aliases that the i-th call passes, none when it passes no list
ConfigAliases(i) ==
    IF MagicConfig[i].aliases = None THEN <<>> ELSE MagicConfig[i].aliases[1]

\* C30: on the five-color registry no describe call of the module body
\* fails, the key of each of the 32 calls is found by the letter-code
\* attempt, the 32 keys reach 32 different entries, the entry of every call
\* already made has the name and exactly the aliases of that call, and once
\* the calls are over each of the 32 entries has a display name of its own.
\* The lookups that follow leave the registry as it is, so the registry is
\* examined between the calls and when they are over.
C30_ConfigurationByLetterCode ==
    pie = MagicColorPie =>
        /\ pc # "failed"
        /\ pc \in {"config", "ready"} =>
              /\ Len(MagicConfig) = 32
              /\ \A i \in 1..Len(MagicConfig) : ConfigTried(i).ok
              /\ \A i, j \in 1..Len(MagicConfig) :
                    i # j => checksum(ConfigTried(i).val) # checksum(ConfigTried(j).val)
              /\ \A i \in 1..Len(MagicConfig) :
                    LET e == ItemOf(idmap, checksum(ConfigTried(i).val)).ident
                    IN  IF i <= cfg
                        THEN /\ e._name = MagicConfig[i].name
                             /\ e.aliases = ConfigAliases(i)
                        ELSE /\ e._name = None
                             /\ e.aliases = <<>>
              /\ pc # "config" =>
                    /\ cfg = Len(MagicConfig)
                    /\ Len(idmap) = Len(MagicConfig)
                    /\ \A k \in 1..Len(idmap) : idmap[k].ident._name # None
                    /\ \A k, l \in 1..Len(idmap) :
                          k # l => idmap[k].ident._name # idmap[l].ident._name

\* C30 witness: the 32 calls are over; the entry of "gu" is named Simic and
\* has its two aliases, the colorless entry is named and has no alias.
C30_Witness ==
    /\ pie = MagicColorPie
    /\ pc = "ready"
    /\ cfg = 32
    /\ LET simic == ItemOf(idmap, checksum(bycode(idmap, pie, <<"g","u">>).val)).ident
       IN  /\ simic._name = Some(<<"S","i","m","i","c">>)
           /\ Len(simic.aliases) = 2
    /\ idmap[1].ident._name = Some(<<"C","o","l","o","r","l","e","s","s">>)
    /\ idmap[1].ident.aliases = <<>>

====
